---- MODULE Spec2Model ----
(***************************************************************************)
(* Physics core of PoolSimulation.js: ball placement (createBilliardBalls, *)
(* getBallPosition), the frame callback (render), the pairwise collision   *)
(* resolver (collisionVel) and the key handler (eventHandler).             *)
(*                                                                         *)
(* Numbers.  The program computes on IEEE doubles; the model computes on   *)
(* integers in fixed point and rounds to the nearest unit wherever the     *)
(* program's result leaves the grid:                                       *)
(*   lengths     centimetres      (source metres x 100)                    *)
(*   velocities  centimetres/s                                             *)
(*   clock delta microseconds     (source seconds x 1000000)               *)
(*   currentTime milliseconds, counted from the start of a minute          *)
(* Ball ID i of the program (table.children[i+8], velocity[i]) is element  *)
(* i+1 of the sequences pos and vel.                                       *)
(***************************************************************************)
EXTENDS Integers, Sequences, FiniteSets

VARIABLES
    pos,            \* table.children[8..].position, one per ball already added
    vel,            \* velocity[]
    currentTime,    \* let currentTime
    currentSecond,  \* let currentSecond
    previousSec,    \* let previousSec
    camera,         \* camera.position: "start" (0.1,2.5,10) or "reset" (6,7.5,17)
    BB,             \* getBallPosition: position of the ball being placed
    stack,          \* getBallPosition: loop counter i of every active invocation
    pcPlace,        \* createBilliardBalls: "call", "loop", "done"
    lastOp,         \* history: which handler ran last
    lastDt,         \* history: first clock.getDelta() of the last handler
    trace,          \* history: the steps of the last handler, in execution order
    colls,          \* history: the pair resolutions of the last handler
    fricCount,      \* history: executions of the once-per-second friction block
    contAfter,      \* history: a placement loop went on after a recursive resample
    frames,         \* history: render calls so far
    boosts,         \* history: S key presses so far
    fixedDt,        \* the constant frame delta of a fixed-rate run (0: none)
    elapsed         \* history: sum of the frame deltas so far

vars == <<pos, vel, currentTime, currentSecond, previousSec, camera, BB, stack,
          pcPlace, lastOp, lastDt, trace, colls, fricCount, contAfter, frames,
          boosts, fixedDt, elapsed>>

placeVars == <<BB, stack, pcPlace, contAfter>>

----------------------------------------------------------------------------
(* defaultSettings and the friction factors *)

tableSize == 1000
tableWidth == 50
nrOfBalls == 3
ballRadius == 20
massOfSphere == 1
restMargin == 5
rollFricPct == 80
colliFricPct == 70
dtCeiling == 150000

HalfWidth == tableSize \div 2 - ballRadius
HalfHeight == tableSize \div 4 - ballRadius
RestZ == tableWidth - restMargin

(* bounds of the model *)
MaxFrames == 2
MaxBoosts == 1
MaxDepth == 3

----------------------------------------------------------------------------
(* THREE.Vector3 *)

Vec(a, b, c) == [x |-> a, y |-> b, z |-> c]
ZeroVec == Vec(0, 0, 0)
Abs(a) == IF a < 0 THEN -a ELSE a

\* nearest integer to a/b, halves upwards (b > 0): Math.round, and the
\* rounding of a result to the number grid
RoundDiv(a, b) == (2 * a + b) \div (2 * b)

addVectors(a, b) == Vec(a.x + b.x, a.y + b.y, a.z + b.z)
subVectors(a, b) == Vec(a.x - b.x, a.y - b.y, a.z - b.z)
dot(a, b) == a.x * b.x + a.y * b.y + a.z * b.z
\* v.multiplyScalar(num/den)
multiplyScalar(v, num, den) ==
    Vec(RoundDiv(v.x * num, den), RoundDiv(v.y * num, den), RoundDiv(v.z * num, den))
distanceToSquared(a, b) == dot(subVectors(a, b), subVectors(a, b))

\* mutant of TooClose: the test against one radius instead of two
TooCloseOneRadius(a, b) == distanceToSquared(a, b) < ballRadius * ballRadius

\* a.distanceTo(b) < defaultSettings.ballRadius*2
TooClose(a, b) == distanceToSquared(a, b) < (ballRadius * 2) * (ballRadius * 2)

----------------------------------------------------------------------------
(* collisionVel *)

\* mutant of scalarNNum: optimizedP without its factor 2.0
scalarNNumNoTwo(v1, v2, d) ==
    LET p == (dot(v1, d) - dot(v2, d)) * massOfSphere
    IN  Vec(p * d.x, p * d.y, p * d.z)

\* scalarN = n * optimizedP * m with n = d/|d|, a1 = v1.n, a2 = v2.n and
\* optimizedP = 2(a1 - a2)/(m + m); the two factors 1/|d| make 1/(d.d), so
\* scalarN = d * [2 (v1.d - v2.d) m] / [(m + m) (d.d)]: numerator, denominator
scalarNNum(v1, v2, d) ==
    LET p == 2 * (dot(v1, d) - dot(v2, d)) * massOfSphere
    IN  Vec(p * d.x, p * d.y, p * d.z)

scalarNDen(d) == (massOfSphere + massOfSphere) * dot(d, d)

\* normalize() of the zero vector is the zero vector, so scalarN is zero
\* when the two centres coincide
scalarN(v1, v2, d) ==
    IF dot(d, d) = 0 THEN ZeroVec
    ELSE LET num == scalarNNum(v1, v2, d)
             den == scalarNDen(d)
         IN  Vec(RoundDiv(num.x, den), RoundDiv(num.y, den), RoundDiv(num.z, den))

\* the body of the if at lines 299-330 for ball ID against ball i
resolvePair(st, ID, i) ==
    LET d  == subVectors(st.pos[i + 1], st.pos[ID + 1])
        v1 == st.vel[ID + 1]
        v2 == st.vel[i + 1]
        sN == scalarN(v1, v2, d)
        viPrime == subVectors(v1, sN)
        vdPrime == addVectors(v2, sN)
    IN  [st EXCEPT
            !.vel = [@ EXCEPT ![ID + 1] = viPrime, ![i + 1] = vdPrime],
            !.colls = Append(@, [ID |-> ID, i |-> i, d |-> d, v1 |-> v1, v2 |-> v2,
                                 num |-> scalarNNum(v1, v2, d), den |-> scalarNDen(d),
                                 viPrime |-> viPrime, vdPrime |-> vdPrime])]

RECURSIVE collisionLoop(_, _, _)
collisionLoop(st, ID, i) ==
    IF i >= Len(st.pos) THEN st
    ELSE IF i = ID THEN collisionLoop(st, ID, i + 1)
    ELSE IF TooClose(st.pos[ID + 1], st.pos[i + 1])
         THEN collisionLoop(resolvePair(st, ID, i), ID, i + 1)
         ELSE collisionLoop(st, ID, i + 1)

collisionVel(st, ID) == collisionLoop(st, ID, 0)

----------------------------------------------------------------------------
(* render *)

\* Math.round(dt * 1000)
roundMs(dt) == (dt + 500) \div 1000

\* mutant of secondOf: the division by 1000 left out
secondOfMs(ct) == ct % 60

\* Math.floor((currentTime / 1000) % 60)
secondOf(ct) == (ct \div 1000) % 60

\* mutant of skipFrame: the ceiling at 1.5 s instead of 0.15 s
skipFrameLate(dt) == dt > 10 * dtCeiling

\* if (dt > 0.15) break
skipFrame(dt) == dt > dtCeiling

\* mutant of translate: the step also applied along z, with the y speed
translateLift(p, v, dt) ==
    addVectors(p, multiplyScalar(Vec(v.x, v.y, v.y), dt, 1000000))

\* ball.position.add(velocity[i].clone().multiplyScalar(dt))
translate(p, v, dt) == addVectors(p, multiplyScalar(v, dt, 1000000))

\* the short-cushion if / else if
reflectX(p, v) ==
    IF p.x > HalfWidth
    THEN multiplyScalar(Vec(-Abs(v.x), v.y, v.z), rollFricPct, 100)
    ELSE IF p.x < -HalfWidth
    THEN multiplyScalar(Vec(Abs(v.x), v.y, v.z), rollFricPct, 100)
    ELSE v

\* the long-cushion if / else if
reflectY(p, v) ==
    IF p.y > HalfHeight
    THEN multiplyScalar(Vec(v.x, -Abs(v.y), v.z), rollFricPct, 100)
    ELSE IF p.y < -HalfHeight
    THEN multiplyScalar(Vec(v.x, Abs(v.y), v.z), rollFricPct, 100)
    ELSE v

\* currentSecond !== previousSec
frictionDue(cs, ps) == cs # ps

\* the block "Check If One Second Has Elapsed", reached in the iteration of ball i
frictionBlock(st, i, dt, cs) ==
    IF frictionDue(cs, st.previousSec)
    THEN [st EXCEPT
            !.vel = [k \in 1..Len(st.vel) |-> multiplyScalar(st.vel[k], rollFricPct, 100)],
            !.previousSec = cs,
            !.fricCount = @ + 1,
            !.trace = Append(@, [op |-> "friction", ball |-> i, dt |-> dt])]
    ELSE st

\* one iteration of the per-ball loop
ballStep(st, i, dt, cs) ==
    LET s1 == collisionVel(st, i)
        p  == translate(s1.pos[i + 1], s1.vel[i + 1], dt)
        v  == reflectY(p, reflectX(p, s1.vel[i + 1]))
        s2 == [s1 EXCEPT
                 !.pos = [@ EXCEPT ![i + 1] = p],
                 !.vel = [@ EXCEPT ![i + 1] = v],
                 !.trace = Append(@, [op |-> "integrate", ball |-> i, dt |-> dt])]
    IN  frictionBlock(s2, i, dt, cs)

RECURSIVE ballLoop(_, _, _, _)
ballLoop(st, i, dt, cs) ==
    IF i >= nrOfBalls \/ skipFrame(dt) THEN st
    ELSE ballLoop(ballStep(st, i, dt, cs), i + 1, dt, cs)

\* render(), with dt the value clock.getDelta() returns
renderBody(dt) ==
    LET ct == currentTime + roundMs(dt)
        cs == secondOf(ct)
    IN  \E st \in { ballLoop([pos |-> pos, vel |-> vel, previousSec |-> previousSec,
                               fricCount |-> fricCount, trace |-> <<>>, colls |-> <<>>],
                              0, dt, cs) } :
        /\ pcPlace = "done"
        /\ currentTime' = ct
        /\ currentSecond' = cs
        /\ pos' = st.pos
        /\ vel' = st.vel
        /\ previousSec' = st.previousSec
        /\ fricCount' = st.fricCount
        /\ trace' = st.trace
        /\ colls' = st.colls
        /\ lastOp' = "render"
        /\ lastDt' = dt
        /\ frames' = frames + 1
        /\ elapsed' = elapsed + dt
        /\ UNCHANGED <<camera, boosts, fixedDt, placeVars>>

\* the values clock.getDelta() returns to render: 0 (first call), 100 ms,
\* 150 ms (the ceiling itself) and 200 ms (above it)
DtSet == {0, 100000, 150000, 200000}

Render == \E dt \in DtSet : frames < MaxFrames /\ fixedDt = 0 /\ renderBody(dt)

----------------------------------------------------------------------------
(* initial states *)

\* new THREE.Vector3(rx, ry, 0)
getBallVelocity(rx, ry) == Vec(rx, ry, 0)

\* positions getBallPosition can leave a ball at: three next to each other
\* in the middle of the table, one near the +x/+y corner, one near the -x cushion
Slots == << Vec(-25, 0, RestZ), Vec(25, 0, RestZ), Vec(0, 50, RestZ),
            Vec(460, 215, RestZ), Vec(-470, -100, RestZ) >>

\* random velocities, each component in (-300, 300)
VelChoices == << getBallVelocity(250, 0), getBallVelocity(-250, 0),
                 getBallVelocity(200, 150) >>

\* new Date().getTime(), within its minute: 300 ms and 100 ms before a new second
StartTimes == {59700, 59900}

Placed(p) ==
    /\ \A k \in 1..Len(p) : Abs(p[k].x) < HalfWidth /\ Abs(p[k].y) < HalfHeight
    /\ \A k, l \in 1..Len(p) : k # l => ~TooClose(p[k], p[l])

InitRun(times) ==
    /\ \E r \in 0..(Len(Slots) - 1) :
          pos = [k \in 1..nrOfBalls |-> Slots[((k - 1 + r) % Len(Slots)) + 1]]
    /\ Placed(pos)
    /\ \E q \in 0..(Len(VelChoices) - 1) :
          vel = [k \in 1..nrOfBalls |-> VelChoices[((k - 1 + q) % Len(VelChoices)) + 1]]
    /\ currentTime \in times
    /\ currentSecond = secondOf(currentTime)
    /\ previousSec = currentSecond
    /\ camera = "start"
    /\ BB = ZeroVec
    /\ stack = <<>>
    /\ pcPlace = "done"
    /\ contAfter = FALSE
    /\ lastOp = "init"
    /\ lastDt = 0
    /\ trace = <<>>
    /\ colls = <<>>
    /\ fricCount = 0
    /\ frames = 0
    /\ boosts = 0
    /\ elapsed = 0

Init == InitRun(StartTimes) /\ fixedDt = 0

SpecRender == Init /\ [][Render]_vars

----------------------------------------------------------------------------
(* eventHandler *)

\* the S branch: one iteration per ball. clock.getDelta() is called once per
\* ball: the first call returns the time since the clock was last read (dt0),
\* the later calls of the same run the time since the previous iteration,
\* which is below the resolution of the grid
RECURSIVE boostLoop(_, _, _)
boostLoop(st, i, dt0) ==
    IF i >= nrOfBalls THEN st
    ELSE LET dt == IF i = 0 THEN dt0 ELSE 0
             v  == multiplyScalar(st.vel[i + 1], colliFricPct + colliFricPct, 100)
             p  == translate(st.pos[i + 1], v, dt)
         IN  boostLoop([st EXCEPT
                          !.vel = [@ EXCEPT ![i + 1] = v],
                          !.pos = [@ EXCEPT ![i + 1] = p],
                          !.trace = Append(@, [op |-> "integrate", ball |-> i, dt |-> dt])],
                       i + 1, dt0)

\* time since the clock was last read when S is pressed: 20 ms, and 400 ms
\* (a stalled frame loop)
KeyDtSet == {20000, 400000}

\* keyCode == 83
KeyS ==
    \E dt0 \in KeyDtSet :
        LET st == boostLoop([pos |-> pos, vel |-> vel, trace |-> <<>>], 0, dt0)
        IN  /\ pcPlace = "done"
            /\ fixedDt = 0
            /\ boosts < MaxBoosts
            /\ pos' = st.pos
            /\ vel' = st.vel
            /\ trace' = st.trace
            /\ colls' = <<>>
            /\ lastOp' = "keyS"
            /\ lastDt' = dt0
            /\ boosts' = boosts + 1
            /\ UNCHANGED <<currentTime, currentSecond, previousSec, camera, fricCount,
                           frames, elapsed, fixedDt, placeVars>>

\* keyCode == 82
KeyR ==
    /\ pcPlace = "done"
    /\ fixedDt = 0
    /\ camera' = "reset"
    /\ lastOp' = "keyR"
    /\ lastDt' = 0
    /\ trace' = <<>>
    /\ colls' = <<>>
    /\ UNCHANGED <<pos, vel, currentTime, currentSecond, previousSec, fricCount,
                   frames, boosts, elapsed, fixedDt, placeVars>>

Next == Render \/ KeyS \/ KeyR

Spec == Init /\ [][Next]_vars

----------------------------------------------------------------------------
(* a run at a fixed frame rate: every clock.getDelta() returns fixedDt, from *)
(* a whole second, until the deltas sum to two seconds                       *)

TwoSeconds == 2 * 1000000

\* deltas that divide 2 s: 1.25 ms and 62.5 ms (no whole number of
\* milliseconds), 8 to 125 ms, and 200 and 250 ms (above the ceiling)
FixedDts == {1250, 62500, 8000, 16000, 20000, 25000, 40000, 50000, 80000,
             100000, 125000, 200000, 250000}

\* second 58 and second 59 of a minute (the next one wraps to second 0)
FixedStartTimes == {58000, 59000}

InitFixed == InitRun(FixedStartTimes) /\ fixedDt \in FixedDts

RenderFixed ==
    /\ fixedDt > 0
    /\ elapsed + fixedDt <= TwoSeconds
    /\ renderBody(fixedDt)

SpecFixedDt == InitFixed /\ [][RenderFixed]_vars

----------------------------------------------------------------------------
(* one call of collisionVel on a synthetic overlapping pair: balls 0 and 1  *)
(* overlap, every other ball is far from both                               *)

\* centre of ball 1 relative to ball 0: nonzero and shorter than 2 radii
ResolverOffsets ==
    { o \in {-30, -15, 0, 15, 30} \X {-30, -15, 0, 15, 30} :
        o[1] * o[1] + o[2] * o[2] > 0 /\ TooClose(Vec(o[1], o[2], 0), ZeroVec) }

ResolverSpeeds == {-150, 0, 150, 240}

InitResolver ==
    /\ \E o \in ResolverOffsets :
          pos = [k \in 1..nrOfBalls |->
                   IF k = 1 THEN Vec(0, 0, RestZ)
                   ELSE IF k = 2 THEN Vec(o[1], o[2], RestZ)
                   ELSE Vec(100 * k, 0, RestZ)]
    /\ \E a, b \in ResolverSpeeds \X ResolverSpeeds :
          vel = [k \in 1..nrOfBalls |->
                   IF k = 1 THEN getBallVelocity(a[1], a[2])
                   ELSE IF k = 2 THEN getBallVelocity(b[1], b[2])
                   ELSE VelChoices[1]]
    /\ currentTime = 0
    /\ currentSecond = 0
    /\ previousSec = 0
    /\ camera = "start"
    /\ BB = ZeroVec
    /\ stack = <<>>
    /\ pcPlace = "done"
    /\ contAfter = FALSE
    /\ lastOp = "init"
    /\ lastDt = 0
    /\ trace = <<>>
    /\ colls = <<>>
    /\ fricCount = 0
    /\ frames = 0
    /\ boosts = 0
    /\ elapsed = 0
    /\ fixedDt = 0

\* collisionVel(table.children[ID+8], ID), once
Resolve ==
    \E ID \in {0, 1} :
        LET st == collisionVel([pos |-> pos, vel |-> vel, colls |-> <<>>], ID)
        IN  /\ lastOp = "init"
            /\ vel' = st.vel
            /\ colls' = st.colls
            /\ lastOp' = "resolve"
            /\ trace' = << [op |-> "resolve", ball |-> ID, dt |-> 0] >>
            /\ UNCHANGED <<pos, currentTime, currentSecond, previousSec, camera,
                           lastDt, fricCount, frames, boosts, fixedDt, elapsed,
                           placeVars>>

SpecResolver == InitResolver /\ [][Resolve]_vars

----------------------------------------------------------------------------
(* createBilliardBalls and the recursion of getBallPosition, step by step *)

\* JavaScript a % b for b > 0: the sign of the result is the sign of a
jsRemainder(a, b) == IF a < 0 THEN -((-a) % b) ELSE a % b

\* lines 200-202, with rx and ry the two values of (Math.random()-0.5)*100
randomPosition(rx, ry) ==
    Vec(jsRemainder(rx, HalfWidth), jsRemainder(ry, HalfHeight), RestZ)

\* values of (Math.random()-0.5)*100, in centimetres, within (-5000, 5000)
RawX == {-990, -60, 480, 30, 540}
RawY == {460, 280}

Top(s) == s[Len(s)]
Pop(s) == SubSeq(s, 1, Len(s) - 1)
SetTop(s, v) == [s EXCEPT ![Len(s)] = v]

Clear(p) == \A k \in 1..Len(pos) : ~TooClose(p, pos[k])

InitPlace ==
    /\ pos = <<>>
    /\ vel = <<>>
    /\ currentTime = 0
    /\ currentSecond = 0
    /\ previousSec = 0
    /\ camera = "start"
    /\ BB = ZeroVec
    /\ stack = <<>>
    /\ pcPlace = "call"
    /\ contAfter = FALSE
    /\ lastOp = "init"
    /\ lastDt = 0
    /\ trace = <<>>
    /\ colls = <<>>
    /\ fricCount = 0
    /\ frames = 0
    /\ boosts = 0
    /\ elapsed = 0
    /\ fixedDt = 0

runVars == <<currentTime, currentSecond, previousSec, camera, lastDt, trace, colls,
             fricCount, frames, boosts, fixedDt, elapsed>>

\* entry of getBallPosition: a fresh random position, then the loop from i = 0.
\* The recursion is cut at MaxDepth invocations: the innermost one draws a
\* position clear of every placed ball.
Sample ==
    \E rx \in RawX, ry \in RawY :
        LET p == randomPosition(rx, ry)
        IN  /\ pcPlace = "call"
            /\ Len(stack) + 1 < MaxDepth \/ Clear(p)
            /\ BB' = p
            /\ stack' = Append(stack, 0)
            /\ pcPlace' = "loop"
            /\ lastOp' = "place"
            /\ UNCHANGED <<pos, vel, contAfter, runVars>>

\* the loop test holds and the ball is too close to ball i: recursive call
Resample ==
    /\ pcPlace = "loop"
    /\ Top(stack) < Len(pos)
    /\ TooClose(BB, pos[Top(stack) + 1])
    /\ pcPlace' = "call"
    /\ lastOp' = "place"
    /\ UNCHANGED <<pos, vel, BB, stack, contAfter, runVars>>

\* the loop test holds and the ball is clear of ball i: i++
LoopNext ==
    /\ pcPlace = "loop"
    /\ Top(stack) < Len(pos)
    /\ ~TooClose(BB, pos[Top(stack) + 1])
    /\ stack' = SetTop(stack, Top(stack) + 1)
    /\ lastOp' = "place"
    /\ UNCHANGED <<pos, vel, BB, pcPlace, contAfter, runVars>>

\* the loop of a recursive invocation ends: it returns into the caller's
\* loop, which goes on with its own i++ and the resampled position
ReturnInner ==
    /\ pcPlace = "loop"
    /\ Top(stack) >= Len(pos)
    /\ Len(stack) > 1
    /\ stack' = SetTop(Pop(stack), Top(Pop(stack)) + 1)
    /\ contAfter' = (contAfter \/ Top(Pop(stack)) + 1 < Len(pos))
    /\ lastOp' = "place"
    /\ UNCHANGED <<pos, vel, BB, pcPlace, runVars>>

\* the outermost invocation returns into createBilliardBalls: velocity[i] is
\* drawn and the ball is added to the table. The velocity plays no part in the
\* placement: ball i is given the i-th of the VelChoices.
AddBall ==
    /\ pcPlace = "loop"
    /\ Top(stack) >= Len(pos)
    /\ Len(stack) = 1
    /\ stack' = <<>>
    /\ vel' = Append(vel, VelChoices[(Len(vel) % Len(VelChoices)) + 1])
    /\ pos' = Append(pos, BB)
    /\ pcPlace' = IF Len(pos) + 1 = nrOfBalls THEN "done" ELSE "call"
    /\ lastOp' = "place"
    /\ UNCHANGED <<BB, contAfter, runVars>>

NextPlace == Sample \/ Resample \/ LoopNext \/ ReturnInner \/ AddBall

SpecPlace == InitPlace /\ [][NextPlace]_vars

----------------------------------------------------------------------------
(* properties *)

Balls == 1..nrOfBalls
InBounds(p) == Abs(p.x) <= HalfWidth /\ Abs(p.y) <= HalfHeight
cross(a, b) == Vec(a.y * b.z - a.z * b.y, a.z * b.x - a.x * b.z, a.x * b.y - a.y * b.x)
times(v, k) == Vec(k * v.x, k * v.y, k * v.z)
WholeMs(dt) == dt % 1000 = 0
IntegratedAt(t, k, b) == t[k].op = "integrate" /\ t[k].ball = b

\* C1: after any number of frames every ball is within the table bounds:
\* |position.x| <= tableSize/2 - ballRadius and |position.y| <= tableSize/4 -
\* ballRadius. (Frames with a delta above the ceiling move nothing, so every
\* frame that moved a ball had a delta in [0, 0.15].)
C1_BoundaryContainment == \A k \in 1..Len(pos) : InBounds(pos[k])

\* C2: a frame whose delta exceeds the 0.15 s ceiling leaves the position and
\* the velocity of every ball unchanged.
C2_LargeDtSkip ==
    [][(lastOp' = "render" /\ lastDt' > dtCeiling) => (pos' = pos /\ vel' = vel)]_vars

\* C2 witness: a skipped frame in a state with an overlapping pair and moving
\* balls, in which the second changed, so that a friction tick was due.
C2_Witness ==
    /\ lastOp = "render"
    /\ lastDt > dtCeiling
    /\ frictionDue(currentSecond, previousSec)
    /\ \E k, l \in Balls : k # l /\ TooClose(pos[k], pos[l])
    /\ \A k \in Balls : vel[k] # ZeroVec

\* C3 as stated: from a whole second, for every fixed frame delta whose
\* frames sum to exactly 2 s, the friction block has run exactly twice when
\* the two seconds are over.
C3_FrictionTwiceAnyDt ==
    (fixedDt > 0 /\ elapsed = TwoSeconds) => fricCount = 2

\* C3 amended: from a whole second, for every fixed frame delta that is a
\* whole number of milliseconds, at most the 0.15 s ceiling, and whose frames
\* sum to exactly 2 s, the friction block has run exactly twice when the two
\* seconds are over.
C3_FrictionTwice ==
    (fixedDt > 0 /\ fixedDt <= dtCeiling /\ WholeMs(fixedDt) /\ elapsed = TwoSeconds)
        => fricCount = 2

\* C3 witness: the end of a two-second run of more than two frames at a
\* whole-millisecond delta below the ceiling, two friction ticks applied.
C3_Witness ==
    /\ fixedDt > 0
    /\ fixedDt <= dtCeiling
    /\ WholeMs(fixedDt)
    /\ elapsed = TwoSeconds
    /\ frames > 2
    /\ fricCount = 2
    /\ currentSecond = 0

\* C4: one call of collisionVel on an overlapping pair with distinct centres
\* resolves the pair once and exchanges the components of the two velocities
\* along the line of centres d (exactly, before the results are rounded to
\* the grid), changes each velocity only along d (tangential components
\* unchanged), stores the results rounded, leaves the sum of the two
\* velocities unchanged, and turns head-on velocities v and -v into -v and v.
C4_ElasticExchange ==
    lastOp = "resolve" =>
        /\ Len(colls) = 1
        /\ LET c   == colls[1]
               viN == subVectors(times(c.v1, c.den), c.num)
               vdN == addVectors(times(c.v2, c.den), c.num)
               sN  == subVectors(c.v1, c.viPrime)
           IN  /\ c.den > 0
               /\ dot(viN, c.d) = c.den * dot(c.v2, c.d)
               /\ dot(vdN, c.d) = c.den * dot(c.v1, c.d)
               /\ cross(c.num, c.d) = ZeroVec
               /\ 2 * Abs(c.den * sN.x - c.num.x) <= c.den
               /\ 2 * Abs(c.den * sN.y - c.num.y) <= c.den
               /\ 2 * Abs(c.den * sN.z - c.num.z) <= c.den
               /\ vel[c.ID + 1] = c.viPrime
               /\ vel[c.i + 1] = c.vdPrime
               /\ addVectors(vel[c.ID + 1], vel[c.i + 1]) = addVectors(c.v1, c.v2)
               /\ (c.v2 = times(c.v1, -1) /\ cross(c.v1, c.d) = ZeroVec)
                     => (vel[c.ID + 1] = c.v2 /\ vel[c.i + 1] = c.v1)

\* C4 witness: a resolved head-on pair on a diagonal line of centres, with
\* opposite nonzero velocities, now swapped.
C4_Witness ==
    /\ lastOp = "resolve"
    /\ Len(colls) = 1
    /\ colls[1].d.x # 0 /\ colls[1].d.y # 0
    /\ colls[1].v1 # ZeroVec
    /\ colls[1].v2 = times(colls[1].v1, -1)
    /\ cross(colls[1].v1, colls[1].d) = ZeroVec
    /\ vel[colls[1].ID + 1] = colls[1].v2

\* C5: when createBilliardBalls returns, the centres of every two distinct
\* balls are at least 2*ballRadius apart.
C5_NonOverlapAtInit ==
    pcPlace = "done" =>
        /\ Len(pos) = nrOfBalls
        /\ \A k, l \in 1..Len(pos) :
              k # l => distanceToSquared(pos[k], pos[l]) >= (2 * ballRadius) * (2 * ballRadius)

\* C5 witness: all balls placed, and during the placement a loop over the
\* placed balls went on after a recursive resample.
C5_Witness == pcPlace = "done" /\ contAfter /\ Len(pos) = nrOfBalls

\* C6: under any interleaving of frames and key events every ball's
\* position.z is tableWidth - 0.05 and every velocity's z component is 0.
C6_TablePlane ==
    \A k \in 1..Len(pos) : pos[k].z = RestZ /\ vel[k].z = 0

\* C6 witness: a frame after a speed boost in which a pair was resolved, a
\* ball was reflected off a cushion and the friction tick ran.
C6_Witness ==
    /\ lastOp = "render"
    /\ boosts > 0
    /\ Len(colls) > 0
    /\ fricCount > 0
    /\ \E k \in Balls : ~InBounds(pos[k])

\* C7: within one frame no unordered pair of balls is resolved twice.
C7_PairResolvedOnce ==
    \A a, b \in 1..Len(colls) :
        a < b => {colls[a].ID, colls[a].i} # {colls[b].ID, colls[b].i}

\* C8: in a frame with a friction tick, the tick comes after the iteration
\* (resolution, integration, boundary handling) of every ball 0..N-1.
C8_FrictionAfterLoop ==
    \A k \in 1..Len(trace) :
        trace[k].op = "friction" =>
            \A b \in 0..(nrOfBalls - 1) : \E j \in 1..(k - 1) : IntegratedAt(trace, j, b)

\* C9: a ball that is beyond a table bound on an axis after a frame is back
\* within that bound after the next frame that is not skipped (stated for a
\* next frame with a positive delta).
C9_ReturnAfterReflection ==
    [][(lastOp = "render" /\ lastOp' = "render" /\ lastDt' > 0 /\ lastDt' <= dtCeiling)
         => \A k \in Balls :
               /\ pos[k].x > HalfWidth => pos'[k].x <= HalfWidth
               /\ pos[k].x < -HalfWidth => pos'[k].x >= -HalfWidth
               /\ pos[k].y > HalfHeight => pos'[k].y <= HalfHeight
               /\ pos[k].y < -HalfHeight => pos'[k].y >= -HalfHeight]_vars

\* C10: in every transition that changes a ball's position, frame or S key,
\* the delta multiplied into that ball's velocity is at most the ceiling.
C10_CeilingOnEveryIntegration ==
    [][\A k \in Balls :
          pos'[k] # pos[k] =>
              \A j \in 1..Len(trace') :
                  IntegratedAt(trace', j, k - 1) => trace'[j].dt <= dtCeiling]_vars

====
